---- MODULE Spec2Model ----
(***************************************************************************)
(* Answer-quality training pipeline of ollama-tui (training/*.py).         *)
(*                                                                         *)
(* Text is a sequence of one-character strings.  A Python float is a       *)
(* fixed-point integer counted in units of 1/Scale (1.0 is Scale), with    *)
(* floor division.  A dict is the sequence of its <<key, value>> pairs in  *)
(* insertion order.                                                        *)
(***************************************************************************)
EXTENDS Integers, Sequences, FiniteSets, TLC

----------------------------------------------------------------------------
(* Bounds of the model *)

MaxBatch == 3
MaxLines == 11
MaxEpochs == 2
MaxQueryChunks == 3
MaxAnswerChunks == 2
MaxBody == 4
MaxRows == 3

----------------------------------------------------------------------------
(* Numbers *)

Scale == 1000

\* numpy's result of a division by zero (inf, nan): outside every finite value
NonFinite == 0 - (Scale * Scale * Scale)

Max(a, b) == IF a >= b THEN a ELSE b

Min(a, b) == IF a <= b THEN a ELSE b

Abs(a) == IF a >= 0 THEN a ELSE 0 - a

\* float(n) of an int
Float(n) == n * Scale

\* a / b on floats
FDiv(a, b) == IF b = 0 THEN NonFinite ELSE (a * Scale) \div b

\* a * b on floats
FMul(a, b) == (a * b) \div Scale

\* the largest r in lo..hi with r * r <= n
RECURSIVE SqrtBetween(_, _, _)
SqrtBetween(n, lo, hi) ==
    IF lo >= hi THEN lo
    ELSE LET mid == (lo + hi + 1) \div 2
         IN  IF mid * mid <= n THEN SqrtBetween(n, mid, hi)
             ELSE SqrtBetween(n, lo, mid - 1)

\* sqrt(a) on floats, rounded down
FSqrt(a) == SqrtBetween(a * Scale, 0, 46340)

\* the list holding the elements of f, each computed once (np.array, list(...))
Materialize(f) == SubSeq(f, 1, Len(f))

RECURSIVE SumSeq(_)
SumSeq(s) == IF s = <<>> THEN 0 ELSE Head(s) + SumSeq(Tail(s))

----------------------------------------------------------------------------
(* Text *)

LowerLetters ==
    <<"a", "b", "c", "d", "e", "f", "g", "h", "i", "j", "k", "l", "m",
      "n", "o", "p", "q", "r", "s", "t", "u", "v", "w", "x", "y", "z">>

UpperLetters ==
    <<"A", "B", "C", "D", "E", "F", "G", "H", "I", "J", "K", "L", "M",
      "N", "O", "P", "Q", "R", "S", "T", "U", "V", "W", "X", "Y", "Z">>

Digits == {"0", "1", "2", "3", "4", "5", "6", "7", "8", "9"}

Range(s) == {s[i] : i \in DOMAIN s}

\* str.lower() on one character
LowerChar(c) ==
    IF \E i \in 1..26 : UpperLetters[i] = c
    THEN LowerLetters[CHOOSE i \in 1..26 : UpperLetters[i] = c]
    ELSE c

\* str.lower()
Lower(text) == [i \in DOMAIN text |-> LowerChar(text[i])]

\* the regular expression class \w
IsWordChar(c) == c \in Range(LowerLetters) \cup Range(UpperLetters) \cup Digits \cup {"_"}

\* the characters str.split() splits on
IsSpace(c) == c \in {" ", "\n", "\t", "\r"}

\* `sub in text` on strings
Contains(text, sub) ==
    \E i \in 0..(Len(text) - Len(sub)) : SubSeq(text, i + 1, i + Len(sub)) = sub

\* the maximal runs of characters satisfying Keep, in order (Keep is a set)
RECURSIVE Runs(_, _, _)
Runs(text, keep, cur) ==
    IF text = <<>>
    THEN (IF cur = <<>> THEN <<>> ELSE <<cur>>)
    ELSE IF Head(text) \in keep
         THEN Runs(Tail(text), keep, Append(cur, Head(text)))
         ELSE (IF cur = <<>> THEN <<>> ELSE <<cur>>) \o Runs(Tail(text), keep, <<>>)

\* re.findall(r'\b\w+\b', text): the maximal runs of word characters
FindWords(text) == Runs(text, {c \in Range(text) : IsWordChar(c)}, <<>>)

\* text.split(): the maximal runs of non-whitespace characters
SplitWhitespace(text) == Runs(text, {c \in Range(text) : ~IsSpace(c)}, <<>>)

\* the elements of s satisfying the test, in order
RECURSIVE FilterSeq(_, _)
FilterSeq(s, keepSet) ==
    IF s = <<>> THEN <<>>
    ELSE (IF Head(s) \in keepSet THEN <<Head(s)>> ELSE <<>>) \o FilterSeq(Tail(s), keepSet)

stopwords ==
    { <<"a">>, <<"a", "n">>, <<"a", "n", "d">>, <<"a", "r", "e">>, <<"a", "s">>,
      <<"a", "t">>, <<"b", "e">>, <<"b", "y">>, <<"f", "o", "r">>,
      <<"f", "r", "o", "m">>, <<"h", "a", "s">>, <<"h", "e">>, <<"i", "n">>,
      <<"i", "s">>, <<"i", "t">>, <<"i", "t", "s">>, <<"o", "f">>, <<"o", "n">>,
      <<"t", "h", "a", "t">>, <<"t", "h", "e">>, <<"t", "o">>, <<"w", "a", "s">>,
      <<"w", "i", "l", "l">>, <<"w", "i", "t", "h">>, <<"h", "o", "w">>,
      <<"w", "h", "a", "t">>, <<"w", "h", "e", "n">>, <<"w", "h", "e", "r", "e">>,
      <<"w", "h", "o">>, <<"w", "h", "y">> }

extract_significant_words(text, stops) ==
    LET words == FindWords(Lower(text))
    IN  FilterSeq(words, {w \in Range(words) : Len(w) > 2 /\ w \notin stops})

\* calculate_query_coverage matching against the answer as written
calculate_query_coverage_case_sensitive(query, answer) ==
    LET query_words == extract_significant_words(query, stopwords)
        matched == Len(FilterSeq(query_words,
                       {w \in Range(query_words) : Contains(answer, w)}))
    IN  IF query_words = <<>> THEN 0
        ELSE FDiv(Float(matched), Float(Len(query_words)))

calculate_query_coverage(query, answer) ==
    LET query_words == extract_significant_words(query, stopwords)
        answer_lower == Lower(answer)
        matched == Len(FilterSeq(query_words,
                       {w \in Range(query_words) : Contains(answer_lower, w)}))
    IN  IF query_words = <<>> THEN 0
        ELSE FDiv(Float(matched), Float(Len(query_words)))

ParagraphBreak == <<"\n", "\n">>

\* the backquote character (written out: the lexer reads no backquote in a string)
Backquote == "backquote"

CodeFence == <<Backquote, Backquote, Backquote>>

DashMarker == <<"-", " ">>

StarMarker == <<"*", " ">>

HasParagraphs(answer) == Contains(answer, ParagraphBreak)

HasCodeBlocks(answer) == Contains(answer, CodeFence)

HasLists(answer) == Contains(answer, DashMarker) \/ Contains(answer, StarMarker)

\* CompletenessScore without min(1.0, ...)
CompletenessScoreUncapped(length, paragraphs, markers) ==
    LET length_score == IF length < 50 THEN 300
                        ELSE IF length < 150 THEN 600
                        ELSE IF length < 500 THEN 800
                        ELSE 1000
        structure_bonus == (IF paragraphs THEN 100 ELSE 0) + (IF markers THEN 100 ELSE 0)
    IN  length_score + structure_bonus

\* the score of an answer of the given length and structure
CompletenessScore(length, paragraphs, markers) ==
    LET length_score == IF length < 50 THEN 300
                        ELSE IF length < 150 THEN 600
                        ELSE IF length < 500 THEN 800
                        ELSE 1000
        structure_bonus == (IF paragraphs THEN 100 ELSE 0) + (IF markers THEN 100 ELSE 0)
    IN  Min(Scale, length_score + structure_bonus)

\* calculate_answer_completeness of the answer made of `filler` letters x
\* followed by text: no marker holds an x, so text alone decides the structure
AnswerCompleteness(filler, text) ==
    CompletenessScore(filler + Len(text), HasParagraphs(text),
                      HasCodeBlocks(text) \/ HasLists(text))

calculate_answer_completeness(answer) == AnswerCompleteness(0, answer)

----------------------------------------------------------------------------
(* Feature extraction *)

RequiredFields ==
    {"context_used", "context_chunks", "vector_top_k", "vector_similarity",
     "query", "answer", "rating"}

\* rating[...] raises KeyError for an absent key
WellFormed(rating) == RequiredFields \subseteq DOMAIN rating

Keys(features) == [i \in DOMAIN features |-> features[i][1]]

\* features[name]
Lookup(features, name) ==
    features[CHOOSE i \in DOMAIN features : features[i][1] = name][2]

\* rating_score with the scale's top as the divisor
rating_score_over_5(r) == FDiv(Float(r), Float(5))

\* features['rating_score'] = (rating['rating'] - 1) / 4.0
rating_score(r) == FDiv(Float(r - 1), Float(4))

extract_features(rating) ==
    LET query == rating.query
        answer == rating.answer
        query_words == Len(SplitWhitespace(query))
        answer_words == Len(SplitWhitespace(answer))
    IN  << <<"context_used", IF rating.context_used THEN Scale ELSE 0>>,
           <<"context_chunks", Float(rating.context_chunks)>>,
           <<"vector_top_k", Float(rating.vector_top_k)>>,
           <<"vector_similarity", rating.vector_similarity>>,
           <<"query_length", Float(Len(query))>>,
           <<"answer_length", Float(Len(answer))>>,
           <<"answer_query_ratio", FDiv(Float(Len(answer)), Float(Max(Len(query), 1)))>>,
           <<"query_coverage", calculate_query_coverage(query, answer)>>,
           <<"answer_completeness", calculate_answer_completeness(answer)>>,
           <<"query_word_count", Float(query_words)>>,
           <<"answer_word_count", Float(answer_words)>>,
           <<"words_per_chunk", FDiv(Float(answer_words), Float(Max(rating.context_chunks, 1)))>>,
           <<"has_paragraphs", IF HasParagraphs(answer) THEN Scale ELSE 0>>,
           <<"has_code_blocks", IF HasCodeBlocks(answer) THEN Scale ELSE 0>>,
           <<"has_lists", IF HasLists(answer) THEN Scale ELSE 0>>,
           <<"rating_score", rating_score(rating.rating)>> >>

\* FeatureNames without its filter
FeatureNamesKeepTarget(first_keys) == first_keys

\* [k for k in all_features[0].keys() if k != 'rating_score']
FeatureNames(first_keys) == FilterSeq(first_keys, Range(first_keys) \ {"rating_score"})

\* the outcome of extract_features_batch: a dataset, or the exception raised
extract_features_batch(ratings) ==
    IF \E i \in DOMAIN ratings : ~WellFormed(ratings[i])
    THEN [error |-> "KeyError", X |-> <<>>, y |-> <<>>, feature_names |-> <<>>]
    ELSE IF ratings = <<>>
    THEN [error |-> "ValueError", X |-> <<>>, y |-> <<>>, feature_names |-> <<>>]
    ELSE LET all_features == Materialize([i \in DOMAIN ratings |->
                                              extract_features(ratings[i])])
             names == FeatureNames(Keys(all_features[1]))
         IN  [error |-> "none",
              X |-> [i \in DOMAIN ratings |->
                        [j \in DOMAIN names |-> Lookup(all_features[i], names[j])]],
              y |-> [i \in DOMAIN ratings |-> Lookup(all_features[i], "rating_score")],
              feature_names |-> names]

----------------------------------------------------------------------------
(* Normalization *)

Column(M, j) == Materialize([i \in DOMAIN M |-> M[i][j]])

\* np.mean of a vector
MeanOf(v) == FDiv(SumSeq(v), Float(Len(v)))

\* np.std of a vector
StdOf(v) ==
    LET m == MeanOf(v)
    IN  FSqrt(MeanOf([i \in DOMAIN v |-> FMul(v[i] - m, v[i] - m)]))

\* normalize_features without the np.where line
normalize_features_no_remap(M) ==
    LET cols == DOMAIN M[1]
        mean_ == Materialize([j \in cols |-> MeanOf(Column(M, j))])
        std_ == Materialize([j \in cols |-> StdOf(Column(M, j))])
    IN  [X_normalized |-> [i \in DOMAIN M |->
                              [j \in cols |-> FDiv(M[i][j] - mean_[j], std_[j])]],
         mean |-> mean_,
         std |-> std_]

normalize_features(M) ==
    LET cols == DOMAIN M[1]
        mean_ == Materialize([j \in cols |-> MeanOf(Column(M, j))])
        std0 == Materialize([j \in cols |-> StdOf(Column(M, j))])
        std_ == Materialize([j \in cols |-> IF std0[j] = 0 THEN Scale ELSE std0[j]])
    IN  [X_normalized |-> [i \in DOMAIN M |->
                              [j \in cols |-> FDiv(M[i][j] - mean_[j], std_[j])]],
         mean |-> mean_,
         std |-> std_]

----------------------------------------------------------------------------
(* Ridge regression and the metrics *)

\* Ridge(alpha=1.0)
alpha == 1000

Dot(u, v) == SumSeq([i \in DOMAIN u |-> FMul(u[i], v[i])])

\* RidgeFit as with fit_intercept=False: nothing is centred
RidgeFitNoIntercept(Xt, yt) ==
    LET cols == DOMAIN Xt[1]
        coef == Materialize([j \in cols |->
                    FDiv(Dot(Column(Xt, j), yt),
                         Dot(Column(Xt, j), Column(Xt, j)) + alpha)])
    IN  [coef |-> coef, intercept |-> 0]

\* Ridge.fit with an intercept: the columns and the target are centred, and
\* each coefficient is the penalised least-squares solution of its column,
\* which is the joint solution when the centred columns are orthogonal (in
\* particular when at most one column varies)
RidgeFit(Xt, yt) ==
    LET cols == DOMAIN Xt[1]
        x_mean == Materialize([j \in cols |-> MeanOf(Column(Xt, j))])
        y_mean == MeanOf(yt)
        yc == Materialize([i \in DOMAIN yt |-> yt[i] - y_mean])
        xc(j) == Materialize([i \in DOMAIN Xt |-> Xt[i][j] - x_mean[j]])
        coef == Materialize([j \in cols |->
                    FDiv(Dot(xc(j), yc), Dot(xc(j), xc(j)) + alpha)])
    IN  [coef |-> coef, intercept |-> y_mean - Dot(coef, x_mean)]

\* model.predict
RidgePredict(m, M) == Materialize([i \in DOMAIN M |-> Dot(M[i], m.coef) + m.intercept])

\* np.clip(v, 0, 1)
Clip01(v) == Materialize([i \in DOMAIN v |-> Max(0, Min(Scale, v[i]))])

mean_absolute_error(y_true, y_hat) ==
    MeanOf([i \in DOMAIN y_true |-> Abs(y_true[i] - y_hat[i])])

r2_score(y_true, y_hat) ==
    LET m == MeanOf(y_true)
        ss_res == SumSeq([i \in DOMAIN y_true |->
                             FMul(y_true[i] - y_hat[i], y_true[i] - y_hat[i])])
        ss_tot == SumSeq([i \in DOMAIN y_true |-> FMul(y_true[i] - m, y_true[i] - m)])
    IN  IF ss_tot = 0 THEN (IF ss_res = 0 THEN Scale ELSE 0)
        ELSE Scale - FDiv(ss_res, ss_tot)

----------------------------------------------------------------------------
(* The state of a run *)

VARIABLES
    pc,             \* where the run stands
    args,           \* the parsed command line: model, epochs, test_size (percent)
    file,           \* the lines of the ratings file
    ratings,        \* load_ratings' result
    X, y, feature_names,
    X_normalized, mean, std,
    fit_log,        \* the matrices normalize_features was called on, in order
    X_train, X_test, y_train, y_test,
    epoch, weights, mode, train_losses, test_losses,
    model, y_pred, metrics,
    artifacts,      \* the files written under training/
    metadata,       \* the content of training/model_metadata.json
    exit_code,      \* the process' exit status (-1 while it runs)
    error,          \* the exception that ended the run
    query, answer, coverage,
    pad, body, score, prev_score, prev_body, last_op, insert_pos

inputVars == <<args, file>>

dataVars == <<ratings, X, y, feature_names>>

normVars == <<X_normalized, mean, std, fit_log>>

splitVars == <<X_train, X_test, y_train, y_test>>

nnVars == <<epoch, weights, mode, train_losses, test_losses>>

resultVars == <<model, y_pred, metrics>>

outVars == <<artifacts, metadata>>

exitVars == <<exit_code, error>>

textVars == <<query, answer, coverage>>

compVars == <<pad, body, score, prev_score, prev_body, last_op, insert_pos>>

vars == <<pc, inputVars, dataVars, normVars, splitVars, nnVars, resultVars,
          outVars, exitVars, textVars, compVars>>

CurvePng == "training/training_curve.png"

PredictionsPng == "training/predictions.png"

MetadataJson == "training/model_metadata.json"

\* the values every run starts with, before any input is read
Blank ==
    /\ ratings = <<>> /\ X = <<>> /\ y = <<>> /\ feature_names = <<>>
    /\ X_normalized = <<>> /\ mean = <<>> /\ std = <<>> /\ fit_log = <<>>
    /\ X_train = <<>> /\ X_test = <<>> /\ y_train = <<>> /\ y_test = <<>>
    /\ epoch = 0 /\ weights = 0 /\ mode = "none"
    /\ train_losses = <<>> /\ test_losses = <<>>
    /\ model = [kind |-> "none"] /\ y_pred = <<>> /\ metrics = [kind |-> "none"]
    /\ artifacts = {} /\ metadata = [written |-> FALSE]
    /\ exit_code = -1 /\ error = "none"

NoText == query = <<>> /\ answer = <<>> /\ coverage = -1

NoComp ==
    /\ pad = 0 /\ body = <<>> /\ score = -1 /\ prev_score = -1 /\ prev_body = <<>>
    /\ last_op = "none" /\ insert_pos = -1

\* an uncaught exception ends the process with status 1
Raise(name) == pc' = "aborted" /\ error' = name /\ exit_code' = 1

----------------------------------------------------------------------------
(* The ratings files of the runs *)

Text_the_cat == <<"t", "h", "e", " ", "c", "a", "t">>

Text_A_cat == <<"A", " ", "c", "a", "t", ".">>

RatingA ==
    [context_used |-> TRUE, context_chunks |-> 2, vector_top_k |-> 5,
     vector_similarity |-> 750, query |-> Text_the_cat, answer |-> Text_A_cat,
     rating |-> 5]

RatingB == [RatingA EXCEPT !.context_used = FALSE, !.rating = 1]

\* an object without its "rating" key
RatingNoRating ==
    [context_used |-> TRUE, context_chunks |-> 2, vector_top_k |-> 5,
     vector_similarity |-> 750, query |-> Text_the_cat, answer |-> Text_A_cat]

JsonLine(obj) == [kind |-> "json", obj |-> obj]

BlankLine == [kind |-> "blank"]

MalformedLine == [kind |-> "malformed"]

LinePool ==
    {JsonLine(RatingA), JsonLine(RatingB), JsonLine(RatingNoRating),
     BlankLine, MalformedLine}

\* the file of n lines alternating a and b
Alternating(n, a, b) == [i \in 1..n |-> IF i % 2 = 1 THEN a ELSE b]

ModelChoices == {"linear", "nn"}

TestSizes == {20, 100}

\* load_ratings: the objects of the non-empty lines, or the exception raised
load_ratings(lines) ==
    IF \E i \in DOMAIN lines : lines[i].kind = "malformed"
    THEN [error |-> "JSONDecodeError", ratings |-> <<>>]
    ELSE LET kept == FilterSeq(lines, {l \in Range(lines) : l.kind = "json"})
         IN  [error |-> "none", ratings |-> [i \in DOMAIN kept |-> kept[i].obj]]

----------------------------------------------------------------------------
(* train_quality_model.py: main *)

MinRatings == 10

Init ==
    /\ pc = "start"
    /\ args \in [model : ModelChoices, epochs : 0..MaxEpochs, test_size : TestSizes]
    /\ \E n \in 0..MaxLines : \E a \in LinePool : \E b \in LinePool :
           file = Alternating(n, a, b)
    /\ Blank /\ NoText /\ NoComp

\* ratings = load_ratings(args.ratings_file)
LoadRatings ==
    /\ pc = "start"
    /\ \E readable \in BOOLEAN :
         LET r == load_ratings(file)
         IN  IF ~readable
             THEN Raise("FileNotFoundError") /\ UNCHANGED ratings
             ELSE IF r.error # "none"
             THEN Raise(r.error) /\ UNCHANGED ratings
             ELSE ratings' = r.ratings /\ pc' = "loaded" /\ UNCHANGED exitVars
    /\ UNCHANGED <<inputVars, X, y, feature_names, normVars, splitVars, nnVars,
                   resultVars, outVars, textVars, compVars>>

\* if len(ratings) < 10: print(...); return
CheckMinimum ==
    /\ pc = "loaded"
    /\ IF Len(ratings) < MinRatings
       THEN pc' = "returned" /\ exit_code' = 0 /\ UNCHANGED error
       ELSE pc' = "checked" /\ UNCHANGED exitVars
    /\ UNCHANGED <<inputVars, dataVars, normVars, splitVars, nnVars, resultVars,
                   outVars, textVars, compVars>>

\* X, y, feature_names = extract_features_batch(ratings)
ExtractFeatures ==
    /\ pc = "checked"
    /\ \E r \in {extract_features_batch(ratings)} :
           IF r.error # "none"
           THEN Raise(r.error) /\ UNCHANGED <<X, y, feature_names>>
           ELSE /\ X' = r.X /\ y' = r.y /\ feature_names' = r.feature_names
                /\ pc' = "extracted" /\ UNCHANGED exitVars
    /\ UNCHANGED <<inputVars, ratings, normVars, splitVars, nnVars, resultVars,
                   outVars, textVars, compVars>>

\* Normalize with save_model_metadata called right after it
NormalizeThenSaveMetadata ==
    /\ pc = "extracted"
    /\ \E r \in {normalize_features(X)} :
           /\ X_normalized' = r.X_normalized /\ mean' = r.mean /\ std' = r.std
           /\ fit_log' = Append(fit_log, X)
           /\ metadata' = [written |-> TRUE, feature_names |-> feature_names,
                           mean |-> r.mean, std |-> r.std]
    /\ artifacts' = artifacts \cup {MetadataJson}
    /\ pc' = "normalized"
    /\ UNCHANGED <<inputVars, dataVars, splitVars, nnVars, resultVars,
                   exitVars, textVars, compVars>>

\* X_normalized, mean, std = normalize_features(X)
Normalize ==
    /\ pc = "extracted"
    /\ \E r \in {normalize_features(X)} :
           /\ X_normalized' = r.X_normalized /\ mean' = r.mean /\ std' = r.std
           /\ fit_log' = Append(fit_log, X)
    /\ pc' = "normalized"
    /\ UNCHANGED <<inputVars, dataVars, splitVars, nnVars, resultVars, outVars,
                   exitVars, textVars, compVars>>

\* the rows of M at the indices of idx, in increasing order
RECURSIVE RowsAt(_, _, _)
RowsAt(M, idx, i) ==
    IF i > Len(M) THEN <<>>
    ELSE (IF i \in idx THEN <<M[i]>> ELSE <<>>) \o RowsAt(M, idx, i + 1)

\* train_test_split's size of the test set: ceil(test_size * n_samples)
TestCount(n, pct) == (pct * n + 99) \div 100

\* Split with the statistics fitted again on each part
SplitRefitPerSplit ==
    /\ pc = "normalized"
    /\ IF args.test_size <= 0 \/ args.test_size >= 100
       THEN Raise("ValueError") /\ UNCHANGED <<splitVars, normVars>>
       ELSE /\ \E test \in SUBSET (1..Len(y)) :
                 /\ Cardinality(test) = TestCount(Len(y), args.test_size)
                 /\ \E tr \in {normalize_features(RowsAt(X, (1..Len(y)) \ test, 1))} :
                    \E te \in {normalize_features(RowsAt(X, test, 1))} :
                      /\ X_test' = te.X_normalized
                      /\ X_train' = tr.X_normalized
                      /\ mean' = tr.mean /\ std' = tr.std
                      /\ fit_log' = fit_log \o <<RowsAt(X, (1..Len(y)) \ test, 1),
                                                  RowsAt(X, test, 1)>>
                 /\ y_test' = RowsAt(y, test, 1)
                 /\ y_train' = RowsAt(y, (1..Len(y)) \ test, 1)
            /\ X_normalized' = X_normalized
            /\ pc' = "split" /\ UNCHANGED exitVars
    /\ UNCHANGED <<inputVars, dataVars, nnVars, resultVars, outVars,
                   textVars, compVars>>

\* train_test_split(X_normalized, y, test_size=args.test_size, random_state=42):
\* the test rows are the first n_test of a seeded permutation, here any
\* n_test rows
Split ==
    /\ pc = "normalized"
    /\ IF args.test_size <= 0 \/ args.test_size >= 100
       THEN Raise("ValueError") /\ UNCHANGED splitVars
       ELSE /\ \E test \in SUBSET (1..Len(y)) :
                 /\ Cardinality(test) = TestCount(Len(y), args.test_size)
                 /\ X_test' = RowsAt(X_normalized, test, 1)
                 /\ y_test' = RowsAt(y, test, 1)
                 /\ X_train' = RowsAt(X_normalized, (1..Len(y)) \ test, 1)
                 /\ y_train' = RowsAt(y, (1..Len(y)) \ test, 1)
            /\ pc' = "split" /\ UNCHANGED exitVars
    /\ UNCHANGED <<inputVars, dataVars, normVars, nnVars, resultVars, outVars,
                   textVars, compVars>>

\* model, y_pred = train_linear_model(X_train, y_train, X_test, y_test)
TrainLinear ==
    /\ pc = "split" /\ args.model = "linear"
    /\ \E m \in {RidgeFit(X_train, y_train)} :
        \E y_pred_train \in {Clip01(RidgePredict(m, X_train))} :
        \E y_pred_test \in {Clip01(RidgePredict(m, X_test))} :
           /\ model' = [kind |-> "ridge", coef |-> m.coef, intercept |-> m.intercept]
           /\ y_pred' = y_pred_test
           /\ metrics' = [kind |-> "ridge",
                          train_mae |-> mean_absolute_error(y_train, y_pred_train),
                          test_mae |-> mean_absolute_error(y_test, y_pred_test),
                          train_r2 |-> r2_score(y_train, y_pred_train),
                          test_r2 |-> r2_score(y_test, y_pred_test)]
    /\ pc' = "trained"
    /\ UNCHANGED <<inputVars, dataVars, normVars, splitVars, nnVars, outVars,
                   exitVars, textVars, compVars>>

\* train_neural_network up to the loop: the model, the tensors, the optimizer
NNSetup ==
    /\ pc = "split" /\ args.model = "nn"
    /\ model' = [kind |-> "mlp", input_size |-> Len(X_train[1])]
    /\ weights' = 0 /\ epoch' = 0 /\ mode' = "train"
    /\ train_losses' = <<>> /\ test_losses' = <<>>
    /\ pc' = "nn_loop"
    /\ UNCHANGED <<inputVars, dataVars, normVars, splitVars, y_pred, metrics,
                   outVars, exitVars, textVars, compVars>>

\* the loss of a forward pass: of which weights, in which mode, over which rows
Loss(w, m, rows, grad) == [weights |-> w, mode |-> m, rows |-> rows, grad |-> grad]

\* the first half of an epoch: model.train(), forward, backward, optimizer.step()
NNEpochTrain ==
    /\ pc = "nn_loop" /\ epoch < args.epochs
    /\ mode' = "train"
    /\ train_losses' = Append(train_losses, Loss(weights, "train", "train", TRUE))
    /\ weights' = weights + 1
    /\ pc' = "nn_eval"
    /\ UNCHANGED <<inputVars, dataVars, normVars, splitVars, epoch, test_losses,
                   resultVars, outVars, exitVars, textVars, compVars>>

\* NNEpochEval without model.eval()
NNEpochEvalInTrainMode ==
    /\ pc = "nn_eval"
    /\ mode' = mode
    /\ test_losses' = Append(test_losses, Loss(weights, mode, "test", FALSE))
    /\ epoch' = epoch + 1
    /\ pc' = "nn_loop"
    /\ UNCHANGED <<inputVars, dataVars, normVars, splitVars, weights, train_losses,
                   resultVars, outVars, exitVars, textVars, compVars>>

\* the second half: model.eval(), the forward pass on the test set under no_grad
NNEpochEval ==
    /\ pc = "nn_eval"
    /\ mode' = "eval"
    /\ test_losses' = Append(test_losses, Loss(weights, "eval", "test", FALSE))
    /\ epoch' = epoch + 1
    /\ pc' = "nn_loop"
    /\ UNCHANGED <<inputVars, dataVars, normVars, splitVars, weights, train_losses,
                   resultVars, outVars, exitVars, textVars, compVars>>

\* after the loop: model.eval(), the predictions and the metrics
NNFinalEval ==
    /\ pc = "nn_loop" /\ ~(epoch < args.epochs)
    /\ mode' = "eval"
    /\ y_pred' = [i \in DOMAIN X_test |-> Loss(weights, "eval", i, FALSE)]
    /\ metrics' = [kind |-> "mlp", weights |-> weights, mode |-> "eval",
                   epochs_run |-> epoch]
    /\ pc' = "nn_evaluated"
    /\ UNCHANGED <<inputVars, dataVars, normVars, splitVars, epoch, weights,
                   train_losses, test_losses, model, outVars, exitVars, textVars,
                   compVars>>

\* plt.savefig('training/training_curve.png'), the end of train_neural_network
NNSaveCurve ==
    /\ pc = "nn_evaluated"
    /\ \E writable \in BOOLEAN :
         IF writable
         THEN artifacts' = artifacts \cup {CurvePng} /\ pc' = "trained"
              /\ UNCHANGED exitVars
         ELSE Raise("OSError") /\ UNCHANGED artifacts
    /\ UNCHANGED <<inputVars, dataVars, normVars, splitVars, nnVars, resultVars,
                   metadata, textVars, compVars>>

\* plot_predictions(y_test, y_pred)
PlotPredictions ==
    /\ pc = "trained"
    /\ \E writable \in BOOLEAN :
         IF writable
         THEN artifacts' = artifacts \cup {PredictionsPng} /\ pc' = "plotted"
              /\ UNCHANGED exitVars
         ELSE Raise("OSError") /\ UNCHANGED artifacts
    /\ UNCHANGED <<inputVars, dataVars, normVars, splitVars, nnVars, resultVars,
                   metadata, textVars, compVars>>

\* save_model_metadata(feature_names, mean, std), then main returns
SaveModelMetadata ==
    /\ pc = "plotted"
    /\ \E writable \in BOOLEAN :
         IF writable
         THEN /\ metadata' = [written |-> TRUE, feature_names |-> feature_names,
                              mean |-> mean, std |-> std]
              /\ artifacts' = artifacts \cup {MetadataJson}
              /\ pc' = "done" /\ exit_code' = 0 /\ UNCHANGED error
         ELSE Raise("OSError") /\ UNCHANGED outVars
    /\ UNCHANGED <<inputVars, dataVars, normVars, splitVars, nnVars, resultVars,
                   textVars, compVars>>

Next ==
    \/ LoadRatings \/ CheckMinimum \/ ExtractFeatures \/ Normalize \/ Split
    \/ TrainLinear \/ NNSetup \/ NNEpochTrain \/ NNEpochEval \/ NNFinalEval
    \/ NNSaveCurve \/ PlotPredictions \/ SaveModelMetadata

Spec == Init /\ [][Next]_vars

----------------------------------------------------------------------------
(* feature_engineering.py run as a script: load, then extract *)

Text_What_is_the_cat ==
    <<"W", "h", "a", "t", " ", "i", "s", " ", "t", "h", "e", " ", "c", "a", "t">>

Text_test_query == <<"t", "e", "s", "t", " ", "q", "u", "e", "r", "y">>

Text_list_and_paragraphs == <<"-", " ", "a", "\n", "\n", "b">>

Text_fenced_cat == <<Backquote, Backquote, Backquote, "c", "a", "t">>

RatingC ==
    [context_used |-> FALSE, context_chunks |-> 0, vector_top_k |-> 3,
     vector_similarity |-> 0, query |-> <<>>, answer |-> Text_list_and_paragraphs,
     rating |-> 2]

RatingD ==
    [context_used |-> TRUE, context_chunks |-> 3, vector_top_k |-> 3,
     vector_similarity |-> 420, query |-> Text_What_is_the_cat,
     answer |-> Text_fenced_cat, rating |-> 3]

RatingE ==
    [context_used |-> TRUE, context_chunks |-> 1, vector_top_k |-> 5,
     vector_similarity |-> 990, query |-> Text_test_query, answer |-> <<>>,
     rating |-> 4]

ExtractPool == {RatingA, RatingB, RatingC, RatingD, RatingE, RatingNoRating}

\* the sequences over S of length at most n
RECURSIVE SeqsUpTo(_, _)
SeqsUpTo(S, n) ==
    IF n = 0 THEN {<<>>}
    ELSE LET shorter == SeqsUpTo(S, n - 1)
         IN  shorter \cup {Append(q, e) : q \in shorter, e \in S}

DefaultArgs == [model |-> "nn", epochs |-> 0, test_size |-> 20]

InitExtract ==
    /\ pc = "fe_start"
    /\ args = DefaultArgs
    /\ \E objs \in SeqsUpTo(ExtractPool, MaxBatch) :
           file = [i \in DOMAIN objs |-> JsonLine(objs[i])]
    /\ Blank /\ NoText /\ NoComp

\* ratings = load_ratings(sys.argv[1])
FELoad ==
    /\ pc = "fe_start"
    /\ \E readable \in BOOLEAN :
         LET r == load_ratings(file)
         IN  IF ~readable
             THEN Raise("FileNotFoundError") /\ UNCHANGED ratings
             ELSE IF r.error # "none"
             THEN Raise(r.error) /\ UNCHANGED ratings
             ELSE ratings' = r.ratings /\ pc' = "fe_loaded" /\ UNCHANGED exitVars
    /\ UNCHANGED <<inputVars, X, y, feature_names, normVars, splitVars, nnVars,
                   resultVars, outVars, textVars, compVars>>

\* X, y, feature_names = extract_features_batch(ratings), then the statistics
\* are printed and the script ends
FEExtract ==
    /\ pc = "fe_loaded"
    /\ \E r \in {extract_features_batch(ratings)} :
           IF r.error # "none"
           THEN Raise(r.error) /\ UNCHANGED <<X, y, feature_names>>
           ELSE /\ X' = r.X /\ y' = r.y /\ feature_names' = r.feature_names
                /\ pc' = "fe_done" /\ exit_code' = 0 /\ UNCHANGED error
    /\ UNCHANGED <<inputVars, ratings, normVars, splitVars, nnVars, resultVars,
                   outVars, textVars, compVars>>

NextExtract == FELoad \/ FEExtract

SpecExtract == InitExtract /\ [][NextExtract]_vars

----------------------------------------------------------------------------
(* normalize_features on its own *)

NormValues == {0, 300, 2500}

InitNormalize ==
    /\ pc = "norm_input"
    /\ args = DefaultArgs /\ file = <<>>
    /\ \E n \in 1..MaxRows : X \in [1..n -> [1..2 -> NormValues]]
    /\ ratings = <<>> /\ y = <<>> /\ feature_names = <<>>
    /\ X_normalized = <<>> /\ mean = <<>> /\ std = <<>> /\ fit_log = <<>>
    /\ X_train = <<>> /\ X_test = <<>> /\ y_train = <<>> /\ y_test = <<>>
    /\ epoch = 0 /\ weights = 0 /\ mode = "none"
    /\ train_losses = <<>> /\ test_losses = <<>>
    /\ model = [kind |-> "none"] /\ y_pred = <<>> /\ metrics = [kind |-> "none"]
    /\ artifacts = {} /\ metadata = [written |-> FALSE]
    /\ exit_code = -1 /\ error = "none"
    /\ NoText /\ NoComp

ApplyNormalize ==
    /\ pc = "norm_input"
    /\ \E r \in {normalize_features(X)} :
           /\ X_normalized' = r.X_normalized /\ mean' = r.mean /\ std' = r.std
           /\ fit_log' = Append(fit_log, X)
    /\ pc' = "norm_done"
    /\ UNCHANGED <<inputVars, dataVars, splitVars, nnVars, resultVars, outVars,
                   exitVars, textVars, compVars>>

NextNormalize == ApplyNormalize

SpecNormalize == InitNormalize /\ [][NextNormalize]_vars

----------------------------------------------------------------------------
(* calculate_query_coverage on its own *)

QueryChunks ==
    { <<"h", "a", "s">>, <<"a", "s", "h">>, <<"S", "h", "a">>, <<" ">>, <<"a">> }

AnswerChunks == { <<"a", "s", "h">>, <<"S", "H", "A">>, <<" ">>, <<"h">> }

\* the texts made of at most n chunks of S, one after the other
RECURSIVE Concats(_, _)
Concats(S, n) ==
    IF n = 0 THEN {<<>>}
    ELSE LET shorter == Concats(S, n - 1)
         IN  shorter \cup {t \o c : t \in shorter, c \in S}

InitCoverage ==
    /\ pc = "cov_input"
    /\ args = DefaultArgs /\ file = <<>>
    /\ Blank /\ NoComp
    /\ query \in Concats(QueryChunks, MaxQueryChunks)
    /\ answer \in Concats(AnswerChunks, MaxAnswerChunks)
    /\ coverage = -1

ComputeCoverage ==
    /\ pc = "cov_input"
    /\ coverage' = calculate_query_coverage(query, answer)
    /\ pc' = "cov_done"
    /\ UNCHANGED <<inputVars, dataVars, normVars, splitVars, nnVars, resultVars,
                   outVars, exitVars, query, answer, compVars>>

NextCoverage == ComputeCoverage

SpecCoverage == InitCoverage /\ [][NextCoverage]_vars

----------------------------------------------------------------------------
(* calculate_answer_completeness on answers that grow *)

\* the numbers of filler letters in front of the text: just under each
\* length threshold, and none
PadLens == {0, 46, 146, 496}

BodyChars == {"x", "\n", Backquote, "-", " "}

Markers == {ParagraphBreak, CodeFence, DashMarker, StarMarker}

InitCompleteness ==
    /\ pc = "comp"
    /\ args = DefaultArgs /\ file = <<>>
    /\ Blank /\ NoText
    /\ pad \in PadLens /\ body = <<>>
    /\ score = AnswerCompleteness(pad, <<>>)
    /\ prev_score = -1 /\ prev_body = <<>> /\ last_op = "none" /\ insert_pos = -1

\* the answer gets one character longer, and is scored again
AppendChar ==
    /\ pc = "comp" /\ Len(body) < MaxBody
    /\ \E c \in BodyChars :
           /\ body' = Append(body, c)
           /\ score' = AnswerCompleteness(pad, body')
    /\ prev_score' = score /\ prev_body' = body
    /\ last_op' = "append" /\ insert_pos' = -1
    /\ UNCHANGED <<pc, pad, inputVars, dataVars, normVars, splitVars, nnVars,
                   resultVars, outVars, exitVars, textVars>>

\* a marker is put into the text after its first p characters, and the answer
\* is scored again
InsertMarker ==
    /\ pc = "comp" /\ Len(body) <= MaxBody
    /\ \E m \in Markers : \E p \in 0..Len(body) :
           /\ body' = SubSeq(body, 1, p) \o m \o SubSeq(body, p + 1, Len(body))
           /\ score' = AnswerCompleteness(pad, body')
           /\ insert_pos' = p
    /\ prev_score' = score /\ prev_body' = body
    /\ last_op' = "insert"
    /\ UNCHANGED <<pc, pad, inputVars, dataVars, normVars, splitVars, nnVars,
                   resultVars, outVars, exitVars, textVars>>

NextCompleteness == AppendChar \/ InsertMarker

SpecCompleteness == InitCompleteness /\ [][NextCompleteness]_vars

----------------------------------------------------------------------------
(* The end-to-end scenario: 12 records, ratings alternating 1 and 5, the    *)
(* answer empty, the query "test query", trained with --model linear        *)

ScenarioRating(i, used, chunks, top_k, similarity) ==
    [context_used |-> used, context_chunks |-> chunks, vector_top_k |-> top_k,
     vector_similarity |-> similarity, query |-> Text_test_query, answer |-> <<>>,
     rating |-> IF i % 2 = 1 THEN 1 ELSE 5]

InitScenario ==
    /\ pc = "start"
    /\ args = [model |-> "linear", epochs |-> 0, test_size |-> 20]
    /\ \E by_class \in BOOLEAN : \E used \in BOOLEAN : \E chunks \in 0..2 :
       \E top_k \in {3, 5} : \E similarity \in {0, 750} :
           file = [i \in 1..12 |->
                      JsonLine(ScenarioRating(i, IF by_class THEN i % 2 = 0 ELSE used,
                                              chunks, top_k, similarity))]
    /\ Blank /\ NoText /\ NoComp

NextScenario ==
    \/ LoadRatings \/ CheckMinimum \/ ExtractFeatures \/ Normalize \/ Split
    \/ TrainLinear \/ PlotPredictions \/ SaveModelMetadata

SpecScenario == InitScenario /\ [][NextScenario]_vars

----------------------------------------------------------------------------
(* Properties *)

LoadFailed == pc = "aborted" /\ error \in {"FileNotFoundError", "JSONDecodeError"}

\* the run has passed the len(ratings) < 10 test
ThresholdChecked == pc \notin {"start", "loaded"} /\ ~LoadFailed

\* C1: a run that loaded fewer than 10 records ends in an InsufficientData
\* error with a non-zero exit status, before any extraction, normalization,
\* split or fit; with 10 or more records the threshold check never ends the run.
InsufficientDataIsAnError ==
    /\ (ThresholdChecked /\ Len(ratings) < MinRatings) =>
           /\ pc = "aborted" /\ error = "InsufficientData" /\ exit_code # 0
           /\ X = <<>> /\ fit_log = <<>> /\ X_train = <<>> /\ model.kind = "none"
    /\ Len(ratings) >= MinRatings => pc # "returned"

\* the dataset is built and the model is trained to completion and evaluated
TrainedToCompletion ==
    /\ X # <<>> /\ Len(X) = Len(ratings) /\ X_train # <<>>
    /\ metrics.kind # "none"
    /\ args.model = "nn" => (Len(train_losses) = args.epochs /\ Len(test_losses) = args.epochs)

Count(s, e) == Cardinality({i \in DOMAIN s : s[i] = e})

\* C3: normalize_features is called at most once in a run, on the full feature
\* matrix and before the split; the rows of the training and the test split
\* are together exactly the rows of that one normalized matrix; the mean and
\* std written to the metadata are the values of that one call.
NormalizationFitOnce ==
    /\ Len(fit_log) <= 1
    /\ X_normalized # <<>> =>
           /\ fit_log = <<X>> /\ Len(X) = Len(ratings)
           /\ \A fit \in {normalize_features(fit_log[1])} :
                  /\ X_normalized = fit.X_normalized
                  /\ mean = fit.mean /\ std = fit.std
                  /\ metadata.written =>
                         (metadata.mean = fit.mean /\ metadata.std = fit.std)
    /\ X_train # <<>> =>
           /\ fit_log = <<X>>
           /\ Len(X_train) + Len(X_test) = Len(X_normalized)
           /\ \A r \in Range(X_normalized) \cup Range(X_train) \cup Range(X_test) :
                  Count(X_train, r) + Count(X_test, r) = Count(X_normalized, r)
    /\ metadata.written =>
           /\ fit_log = <<X>>
           /\ X_normalized # <<>>
           /\ metadata.mean = mean /\ metadata.std = std
           /\ metadata.feature_names = feature_names

NormalizationFitOnceWitness ==
    /\ pc = "done" /\ metadata.written
    /\ Len(fit_log) = 1
    /\ \E i \in DOMAIN X_train : \E k \in DOMAIN X_test : X_train[i] # X_test[k]

FeatureOrder ==
    <<"context_used", "context_chunks", "vector_top_k", "vector_similarity",
      "query_length", "answer_length", "answer_query_ratio", "query_coverage",
      "answer_completeness", "query_word_count", "answer_word_count",
      "words_per_chunk", "has_paragraphs", "has_code_blocks", "has_lists">>

\* extract_features_batch has been called and has returned or raised
BatchCalled == pc = "fe_done" \/ (pc = "aborted" /\ error # "FileNotFoundError")

\* C4: for a non-empty sequence of well-formed records the dataset is built:
\* every feature vector has the same 16 keys (the 15 features and
\* rating_score), the schema is the first vector's keys in order without
\* rating_score, row i and target i come from record i with the columns in
\* the schema's order, and the matrix has shape (records, 15). For an empty
\* sequence the call raises instead of returning a dataset.
DatasetFollowsSchema ==
    /\ (BatchCalled /\ ratings # <<>> /\ \A i \in DOMAIN ratings : WellFormed(ratings[i])) =>
           /\ pc = "fe_done"
           /\ feature_names = FeatureOrder
           /\ Len(X) = Len(ratings) /\ Len(y) = Len(ratings)
           /\ \A i \in DOMAIN ratings :
                  LET f == extract_features(ratings[i])
                  IN  /\ Len(f) = 16
                      /\ Range(Keys(f)) = Range(FeatureOrder) \cup {"rating_score"}
                      /\ Keys(f) = Keys(extract_features(ratings[1]))
                      /\ Len(X[i]) = 15
                      /\ \A j \in 1..15 :
                             /\ f[j][1] = feature_names[j]
                             /\ X[i][j] = f[j][2]
                      /\ f[16][1] = "rating_score" /\ y[i] = f[16][2]
    /\ (BatchCalled /\ ratings = <<>>) =>
           /\ pc = "aborted" /\ error = "ValueError"
           /\ X = <<>> /\ y = <<>> /\ feature_names = <<>>

DatasetFollowsSchemaWitness ==
    /\ pc = "fe_done" /\ Len(ratings) >= 2
    /\ \E i \in DOMAIN X : \E k \in DOMAIN X :
           /\ X[i] # X[k] /\ y[i] # y[k]
           /\ X[i][8] > 0 /\ X[k][13] > 0

TargetValues == {0, 250, 500, 750, 1000}

\* C8: for a record with rating r in 1..5 the target is exactly (r - 1) / 4:
\* one of 0, 0.25, 0.5, 0.75, 1.0, in [0, 1], strictly increasing in r, with
\* 1 -> 0.0, 3 -> 0.5 and 5 -> 1.0.
RatingScoreExact ==
    pc = "fe_done" =>
        \A i \in DOMAIN ratings :
            LET r == ratings[i].rating
            IN  r \in 1..5 =>
                    /\ y[i] * 4 = (r - 1) * Scale
                    /\ y[i] \in TargetValues /\ 0 <= y[i] /\ y[i] <= Scale
                    /\ (r = 1 => y[i] = 0) /\ (r = 3 => y[i] = 500) /\ (r = 5 => y[i] = Scale)
                    /\ \A k \in DOMAIN ratings : ratings[k].rating > r => y[k] > y[i]

RatingScoreExactWitness ==
    /\ pc = "fe_done"
    /\ \E i \in DOMAIN ratings : \E k \in DOMAIN ratings : \E l \in DOMAIN ratings :
           ratings[i].rating = 2 /\ ratings[k].rating = 3 /\ ratings[l].rating = 5

\* the error a round trip may carry: the two roundings of the division and
\* the multiplication, in units of 1/Scale
RoundTripTolerance(s) == (s \div Scale) + 2

\* C5: every returned std is non-zero, a computed standard deviation of 0
\* being replaced by 1; normalized * std + mean gives X back, column by column,
\* up to rounding; in a column whose computed standard deviation was 0 every
\* normalized value is 0 and the reconstruction is the column's mean.
NormalizeRoundTrip ==
    pc = "norm_done" =>
        \A j \in DOMAIN std :
            LET computed == StdOf(Column(X, j))
            IN  /\ std[j] # 0
                /\ std[j] = (IF computed = 0 THEN Scale ELSE computed)
                /\ \A i \in DOMAIN X :
                       /\ X_normalized[i][j] # NonFinite
                       /\ Abs(FMul(X_normalized[i][j], std[j]) + mean[j] - X[i][j])
                              <= RoundTripTolerance(std[j])
                       /\ computed = 0 =>
                              /\ X_normalized[i][j] = 0
                              /\ FMul(X_normalized[i][j], std[j]) + mean[j] = mean[j]
                              /\ X[i][j] = mean[j]

NormalizeRoundTripWitness ==
    /\ pc = "norm_done" /\ Len(X) >= 2
    /\ StdOf(Column(X, 1)) = 0 /\ std[1] = Scale /\ X[1][1] # 0
    /\ StdOf(Column(X, 2)) # 0 /\ X_normalized[1][2] # 0

\* the significant query words occurring in the lowercased answer
FoundWords ==
    LET sig == extract_significant_words(query, stopwords)
    IN  FilterSeq(sig, {w \in Range(sig) : Contains(Lower(answer), w)})

\* C6: query_coverage is in [0, 1]; it is 0.0 when the query has no
\* significant word; it is 1.0 when it has one and every significant word
\* occurs in the lowercased answer; in general it is the number of significant
\* word occurrences found in the answer over their number.
CoverageIsMatchedFraction ==
    pc = "cov_done" =>
        LET sig == extract_significant_words(query, stopwords)
            words == FindWords(Lower(query))
        IN  /\ 0 <= coverage /\ coverage <= Scale
            /\ (\A i \in DOMAIN words : Len(words[i]) <= 2 \/ words[i] \in stopwords)
                   => (sig = <<>> /\ coverage = 0)
            /\ (sig # <<>> /\ \A i \in DOMAIN sig : Contains(Lower(answer), sig[i]))
                   => coverage = Scale
            /\ sig # <<>> => coverage = (Len(FoundWords) * Scale) \div Len(sig)
            /\ sig # <<>> => (coverage = Scale <=> Len(FoundWords) = Len(sig))

CoverageIsMatchedFractionWitness ==
    /\ pc = "cov_done" /\ 0 < coverage /\ coverage < Scale
    /\ answer # Lower(answer)
    /\ Len(extract_significant_words(query, stopwords)) = 2

\* the length bucket of an answer
Bucket(length) ==
    IF length < 50 THEN 1 ELSE IF length < 150 THEN 2 ELSE IF length < 500 THEN 3 ELSE 4

\* the marker was put inside a paragraph break, code fence or list marker the
\* text already had
SplitsMarker(text, p) ==
    \E m \in Markers : \E k \in 0..(Len(text) - Len(m)) :
        SubSeq(text, k + 1, k + Len(m)) = m /\ k < p /\ p < k + Len(m)

ScoreInUnitInterval == 0 <= score /\ score <= Scale

\* a longer answer of the same length bucket scores no lower (the answer is
\* extended by a character)
LongerScoresNoLower ==
    (last_op = "append" /\ Bucket(pad + Len(prev_body)) = Bucket(pad + Len(body)))
        => score >= prev_score

\* C7 as claimed: answer_completeness is in [0, 1], does not decrease as the
\* answer gets longer within a length bucket, and inserting a paragraph
\* break, a code fence or a list marker into an answer never lowers the score.
CompletenessNeverLoweredByInsert ==
    pc = "comp" =>
        /\ ScoreInUnitInterval
        /\ LongerScoresNoLower
        /\ last_op = "insert" => score >= prev_score

\* C7 as amended: answer_completeness is in [0, 1], does not decrease as the
\* answer gets longer within a length bucket, and inserting a paragraph
\* break, a code fence or a list marker at a place that is not inside a
\* paragraph break, code fence or list marker the answer already has never
\* lowers the score.
CompletenessNotLoweredByCleanInsert ==
    pc = "comp" =>
        /\ ScoreInUnitInterval
        /\ LongerScoresNoLower
        /\ (last_op = "insert" /\ ~SplitsMarker(prev_body, insert_pos))
               => score >= prev_score

CompletenessNotLoweredByCleanInsertWitness ==
    /\ pc = "comp" /\ last_op = "insert" /\ ~SplitsMarker(prev_body, insert_pos)
    /\ 0 < insert_pos /\ insert_pos < Len(prev_body)
    /\ score > prev_score /\ score = Scale
    /\ Bucket(pad + Len(prev_body)) # Bucket(pad + Len(body))

\* the targets of the scenario alternate 0.0 and 1.0
TargetsAlternate ==
    /\ Len(y) = 12
    /\ \A i \in DOMAIN y : y[i] = (IF i % 2 = 1 THEN 0 ELSE Scale)

====
